---------------------------- MODULE Spec2Model ----------------------------
(***************************************************************************)
(* Match-report view engine of the decomp dashboard.                       *)
(*                                                                         *)
(* Two UI surfaces run the same engine: the standalone report page         *)
(* (src/src/objdiff.js, surface "page") and the embedded dashboard view     *)
(* (src/src/renderer.js, surface "dash").  Both call the main-process       *)
(* handler 'objdiff:run-report' (src/unnamed/part_001).                     *)
(*                                                                         *)
(* Strings that the code compares or lower-cases are sequences of UTF-16    *)
(* code units (naturals); message texts are TLA+ strings.  Fractions in     *)
(* [0,1] are naturals in units of 1/One.                                    *)
(***************************************************************************)
EXTENDS Naturals, Integers, Sequences, FiniteSets, TLC

VARIABLES surface, ui, inFlight, run, last

vars == <<surface, ui, inFlight, run, last>>

\* ------------------------------------------------------------------------
\* Bounds
\* ------------------------------------------------------------------------
MaxUnits == 2       \* longest units array the tool reports
MaxQueryLen == 1    \* longest text typed into the filter box
MaxInFlight == 2    \* cap on simultaneously pending acquisitions
MaxViewUnits == 3   \* longest units array of the reports of SpecView
MaxStdoutLen == 4   \* most code units a child process writes to stdout

\* ------------------------------------------------------------------------
\* Values
\* ------------------------------------------------------------------------
One == 100000       \* the fraction 1.0

Chars == {65, 97, 98}                      \* "A", "a", "b"

Surfaces == {"page", "dash"}

SortKeys == {"name", "match_percent"}

NoError == ""

E_PROJECT_PATH == "Project path not set."
E_NOT_FOUND == "objdiff-cli.exe not found. Please set its path in Settings, or place it in your project folder."
E_COMMAND_FAILED == "objdiff-cli command failed."
E_PARSE == "Failed to run or parse report: Unexpected token"
E_NO_REPORT == "The objdiff command did not return a valid report."
E_TYPE == "TypeError"

PH_START == <<"", "Click \"Run Verification Report\" to start.">>
PH_BUSY == <<"", "Executing objdiff-cli...">>

PlaceholderError(message) == <<"Error: ", message>>

\* ------------------------------------------------------------------------
\* String primitives
\* ------------------------------------------------------------------------
\* String.prototype.toLowerCase on the modelled alphabet
toLowerCase(str) ==
    [i \in DOMAIN str |-> IF str[i] \in 65..90 THEN str[i] + 32 ELSE str[i]]

\* String.prototype.includes
includes(str, q) ==
    \E i \in 0..(Len(str) - Len(q)) : SubSeq(str, i + 1, i + Len(q)) = q

\* the < operator on two strings: code-unit lexicographic order
RECURSIVE StrLess(_, _)
StrLess(a, b) ==
    IF b = <<>> THEN FALSE
    ELSE IF a = <<>> THEN TRUE
    ELSE IF a[1] < b[1] THEN TRUE
    ELSE IF a[1] > b[1] THEN FALSE
    ELSE StrLess(Tail(a), Tail(b))

\* the < operator on property values: numbers numerically, strings
\* lexicographically, anything involving undefined is false
JsLess(x, y) ==
    IF x.t = "string" /\ y.t = "string" THEN StrLess(x.s, y.s)
    ELSE IF x.t = "number" /\ y.t = "number" THEN x.n < y.n
    ELSE FALSE

\* ------------------------------------------------------------------------
\* Reports as parsed JSON values
\* ------------------------------------------------------------------------
Sym(nm, mp, bs, ts) ==
    [name |-> nm, match_percent |-> mp, base_size |-> bs, target_size |-> ts]

Unit(nm, mp, syms) ==
    [name |-> nm, nameTag |-> "string", match_percent |-> mp,
     symbols |-> syms, symbolsTag |-> "array"]

fn1 == Sym(<<97>>, 0, 100, 120)
fn2 == Sym(<<98>>, One, 40, 40)

\* the units the external tool reports on
UnitPool ==
    { Unit(<<97>>, 25000, <<fn1, fn2>>),        \* "a"  0.25
      Unit(<<65, 98>>, One, <<fn1>>),           \* "Ab" 1.0
      Unit(<<98>>, 25000, <<fn2, fn1>>) }       \* "b"  0.25

RECURSIVE SeqsUpTo(_, _)
SeqsUpTo(S, n) ==
    IF n = 0 THEN {<<>>}
    ELSE LET shorter == SeqsUpTo(S, n - 1)
         IN  shorter \cup {Append(q, x) : q \in shorter, x \in S}

JsNull ==
    [tag |-> "null", fieldsTag |-> "absent", unitsTag |-> "absent",
     units |-> <<>>, total_progress |-> 0, matched_objects |-> 0,
     total_objects |-> 0]

\* a report of the specified shape, with the summary the tool computes
WellFormed(units) ==
    LET n == Len(units)
        m == Cardinality({i \in DOMAIN units : units[i].match_percent = One})
    IN  [tag |-> "object", fieldsTag |-> "number", unitsTag |-> "array",
         units |-> units,
         total_progress |-> IF n = 0 THEN 0 ELSE (m * One) \div n,
         matched_objects |-> m, total_objects |-> n]

\* valid JSON that is not a report of the specified shape
EmptyObject == [JsNull EXCEPT !.tag = "object"]                       \* {}
UnitsNotArray == [WellFormed(<<>>) EXCEPT !.unitsTag = "number"]      \* units: 5
UnitWithoutName ==
    WellFormed(<<[Unit(<<>>, 25000, <<fn1>>) EXCEPT !.nameTag = "absent"]>>)
UnitWithoutSymbols ==
    WellFormed(<<[Unit(<<97>>, 25000, <<>>) EXCEPT !.symbolsTag = "absent"]>>)

UnitAboveOne == WellFormed(<<Unit(<<97>>, One + One \div 2, <<fn1>>)>>)  \* 1.5

WellFormedReports == {WellFormed(us) : us \in SeqsUpTo(UnitPool, MaxUnits)}

Deviations ==
    {JsNull, EmptyObject, UnitsNotArray, UnitWithoutName, UnitWithoutSymbols,
     UnitAboveOne}

\* a richer set of units for the view engine on its own: a tie, a third
\* value just below 1.0, and a matched unit that shares a mismatched
\* unit's name
ViewPool ==
    UnitPool \cup { Unit(<<97>>, One, <<fn1>>),              \* "a"  1.0
                    Unit(<<98, 97>>, One - 1, <<fn2>>) }     \* "ba" 0.99999

ViewReports == {WellFormed(us) : us \in SeqsUpTo(ViewPool, MaxViewUnits)}

JsonValues == WellFormedReports \cup Deviations

\* what the tool wrote to stdout: text JSON.parse rejects, or the text of
\* a JSON value
Stdouts ==
    {[parsable |-> FALSE, value |-> JsNull]}
        \cup {[parsable |-> TRUE, value |-> v] : v \in JsonValues}

Queries == SeqsUpTo(Chars, MaxQueryLen)


\* ------------------------------------------------------------------------
\* Exceptions: a handler that throws leaves the message in `thrown` and
\* performs none of its remaining statements.
\* ------------------------------------------------------------------------
Throw(s, message) == [s EXCEPT !.thrown = message]

Caught(s) == [s EXCEPT !.thrown = NoError]

\* ------------------------------------------------------------------------
\* Sorting (both surfaces use the same comparator)
\* ------------------------------------------------------------------------
Reverse(seq) == [i \in 1..Len(seq) |-> seq[Len(seq) + 1 - i]]

\* a[state.sortKey]
Prop(u, key) ==
    IF key = "name"
    THEN IF u.nameTag = "string"
         THEN [t |-> "string", s |-> u.name, n |-> 0]
         ELSE [t |-> "undefined", s |-> <<>>, n |-> 0]
    ELSE [t |-> "number", s |-> <<>>, n |-> u.match_percent]

\* a comparator that orders ascending whatever the direction
compare_ignoresDirection(a, b, key, dir) ==
    LET valA == Prop(a, key)
        valB == Prop(b, key)
    IN  IF JsLess(valA, valB) THEN -1
        ELSE IF JsLess(valB, valA) THEN 1
        ELSE 0

\* the comparator handed to Array.prototype.sort
compare(a, b, key, dir) ==
    LET valA == Prop(a, key)
        valB == Prop(b, key)
    IN  IF JsLess(valA, valB) THEN (IF dir = "asc" THEN -1 ELSE 1)
        ELSE IF JsLess(valB, valA) THEN (IF dir = "asc" THEN 1 ELSE -1)
        ELSE 0

\* an insertion that drops an element comparing equal to one already there
RECURSIVE InsertSorted_dropsTies(_, _, _, _)
InsertSorted_dropsTies(sorted, x, key, dir) ==
    IF sorted = <<>> THEN <<x>>
    ELSE IF compare(x, Head(sorted), key, dir) < 0 THEN <<x>> \o sorted
    ELSE IF compare(x, Head(sorted), key, dir) = 0 THEN sorted
    ELSE <<Head(sorted)>> \o InsertSorted_dropsTies(Tail(sorted), x, key, dir)

\* Array.prototype.sort is stable: an element goes before the first element
\* that compares strictly after it
RECURSIVE InsertSorted(_, _, _, _)
InsertSorted(sorted, x, key, dir) ==
    IF sorted = <<>> THEN <<x>>
    ELSE IF compare(x, Head(sorted), key, dir) < 0 THEN <<x>> \o sorted
    ELSE <<Head(sorted)>> \o InsertSorted(Tail(sorted), x, key, dir)

RECURSIVE ArraySort(_, _, _)
ArraySort(arr, key, dir) ==
    IF arr = <<>> THEN <<>>
    ELSE InsertSorted(ArraySort(SubSeq(arr, 1, Len(arr) - 1), key, dir),
                      arr[Len(arr)], key, dir)

\* sortUnits that sorts ascending and reverses the array for 'desc'
sortUnits_reverseForDesc(s) ==
    IF s.report.tag = "null" \/ s.report.unitsTag = "absent" THEN s
    ELSE IF s.report.unitsTag # "array" THEN Throw(s, E_TYPE)
    ELSE [s EXCEPT !.report.units =
            IF s.sortDirection = "asc" THEN ArraySort(@, s.sortKey, "asc")
            ELSE Reverse(ArraySort(@, s.sortKey, "asc"))]

sortUnits(s) ==
    IF s.report.tag = "null" \/ s.report.unitsTag = "absent" THEN s
    ELSE IF s.report.unitsTag # "array" THEN Throw(s, E_TYPE)
    ELSE [s EXCEPT !.report.units = ArraySort(@, s.sortKey, s.sortDirection)]

sortDashboardUnits(s) ==
    IF s.report.tag = "null" \/ s.report.unitsTag = "absent" THEN s
    ELSE IF s.report.unitsTag # "array" THEN Throw(s, E_TYPE)
    ELSE [s EXCEPT !.report.units = ArraySort(@, s.sortKey, s.sortDirection)]

\* ------------------------------------------------------------------------
\* Rendering
\* ------------------------------------------------------------------------
\* (x * 100).toFixed(2) as <<whole part, hundredths>>
toFixed2(x) ==
    LET h == (x + 5) \div 10
    IN  <<h \div 100, h % 100>>

isMismatch(unit) == unit.match_percent < One

UnitRow(unit) ==
    [kind |-> "unit", name |-> unit.name, expandable |-> isMismatch(unit),
     percent |-> toFixed2(unit.match_percent),
     status |-> IF isMismatch(unit) THEN "Mismatch" ELSE "Matched",
     items |-> <<>>]

DetailsRow(items) ==
    [kind |-> "details", name |-> <<>>, expandable |-> FALSE,
     percent |-> <<0, 0>>, status |-> "", items |-> items]

RECURSIVE Filter(_, _)
Filter(arr, q) ==
    IF arr = <<>> THEN <<>>
    ELSE IF includes(toLowerCase(Head(arr).name), q)
         THEN <<Head(arr)>> \o Filter(Tail(arr), q)
         ELSE Filter(Tail(arr), q)

RECURSIVE MismatchedSymbols(_)
MismatchedSymbols(symbols) ==
    IF symbols = <<>> THEN <<>>
    ELSE IF Head(symbols).match_percent < One
         THEN <<Head(symbols)>> \o MismatchedSymbols(Tail(symbols))
         ELSE MismatchedSymbols(Tail(symbols))

\* the <li> items of the standalone page: name, percentage, sizes
renderDetailsRow(unit) ==
    LET ms == MismatchedSymbols(unit.symbols)
    IN  DetailsRow([i \in DOMAIN ms |->
            [name |-> ms[i].name, percent |-> toFixed2(ms[i].match_percent),
             bytes |-> <<ms[i].base_size, ms[i].target_size>>]])

\* the <li> items of the dashboard: name and percentage only
renderDashboardDetailsRow(unit) ==
    LET ms == MismatchedSymbols(unit.symbols)
    IN  DetailsRow([i \in DOMAIN ms |->
            [name |-> ms[i].name, percent |-> toFixed2(ms[i].match_percent),
             bytes |-> <<>>]])

\* rows that open the details of every unit whose name is expanded
RECURSIVE PageRows_expandsByNameOnly(_, _)
PageRows_expandsByNameOnly(units, expanded) ==
    IF units = <<>> THEN <<>>
    ELSE LET unit == Head(units)
         IN  <<UnitRow(unit)>>
             \o (IF unit.name \in expanded
                 THEN <<renderDetailsRow(unit)>> ELSE <<>>)
             \o PageRows_expandsByNameOnly(Tail(units), expanded)

RECURSIVE PageRows(_, _)
PageRows(units, expanded) ==
    IF units = <<>> THEN <<>>
    ELSE LET unit == Head(units)
         IN  <<UnitRow(unit)>>
             \o (IF isMismatch(unit) /\ unit.name \in expanded
                 THEN <<renderDetailsRow(unit)>> ELSE <<>>)
             \o PageRows(Tail(units), expanded)

RECURSIVE DashboardRows(_, _)
DashboardRows(units, expanded) ==
    IF units = <<>> THEN <<>>
    ELSE LET unit == Head(units)
         IN  <<UnitRow(unit)>>
             \o (IF isMismatch(unit) /\ unit.name \in expanded
                 THEN <<renderDashboardDetailsRow(unit)>> ELSE <<>>)
             \o DashboardRows(Tail(units), expanded)

\* does building the table body throw a TypeError?
TableThrows(s) ==
    \/ s.report.tag = "null"
    \/ s.report.unitsTag # "array"
    \/ \E i \in DOMAIN s.report.units : s.report.units[i].nameTag # "string"
    \/ \E i \in DOMAIN s.report.units :
          LET unit == s.report.units[i]
          IN  /\ unit.nameTag = "string"
              /\ includes(toLowerCase(unit.name), s.filterQuery)
              /\ isMismatch(unit)
              /\ unit.name \in s.expandedRows
              /\ unit.symbolsTag # "array"

renderTable(s) ==
    IF TableThrows(s) THEN Throw(s, E_TYPE)
    ELSE [s EXCEPT !.tableBody =
            PageRows(Filter(s.report.units, s.filterQuery), s.expandedRows)]

renderDashboardTable(s) ==
    IF TableThrows(s) THEN Throw(s, E_TYPE)
    ELSE [s EXCEPT !.tableBody =
            DashboardRows(Filter(s.report.units, s.filterQuery), s.expandedRows)]

SummaryOf(report) ==
    IF report.fieldsTag = "number"
    THEN [nan |-> FALSE, progress |-> toFixed2(report.total_progress),
          matched |-> <<report.matched_objects, report.total_objects>>]
    ELSE [nan |-> TRUE, progress |-> <<0, 0>>, matched |-> <<0, 0>>]

renderSummary(s) == [s EXCEPT !.summary = SummaryOf(s.report)]

renderDashboardSummary(s) == [s EXCEPT !.summary = SummaryOf(s.report)]

render(s) ==
    IF s.report.tag = "null"
    THEN [s EXCEPT !.summaryHidden = TRUE, !.tableHidden = TRUE,
                   !.controlsHidden = TRUE, !.placeholderHidden = FALSE,
                   !.placeholderText = PH_START, !.placeholderRed = FALSE]
    ELSE renderTable(renderSummary(
            [s EXCEPT !.summaryHidden = FALSE, !.tableHidden = FALSE,
                      !.controlsHidden = FALSE, !.placeholderHidden = TRUE]))

renderDashboard(s) ==
    IF s.report.tag = "null"
    THEN [s EXCEPT !.summaryHidden = TRUE, !.tableHidden = TRUE,
                   !.controlsHidden = TRUE, !.placeholderHidden = FALSE]
    ELSE renderDashboardTable(renderDashboardSummary(
            [s EXCEPT !.summaryHidden = FALSE, !.tableHidden = FALSE,
                      !.controlsHidden = FALSE, !.placeholderHidden = TRUE]))

\* ------------------------------------------------------------------------
\* UI state changers
\* ------------------------------------------------------------------------
\* setLoadingState that leaves the run control enabled
setLoadingState_keepsEnabled(s, isLoading) ==
    IF isLoading
    THEN [s EXCEPT !.placeholderText = PH_BUSY,
                   !.placeholderRed = FALSE, !.placeholderHidden = FALSE,
                   !.tableHidden = TRUE, !.summaryHidden = TRUE,
                   !.controlsHidden = TRUE]
    ELSE [s EXCEPT !.btnDisabled = FALSE]

setLoadingState(s, isLoading) ==
    IF isLoading
    THEN [s EXCEPT !.btnDisabled = TRUE, !.placeholderText = PH_BUSY,
                   !.placeholderRed = FALSE, !.placeholderHidden = FALSE,
                   !.tableHidden = TRUE, !.summaryHidden = TRUE,
                   !.controlsHidden = TRUE]
    ELSE [s EXCEPT !.btnDisabled = FALSE]

\* setDashboardLoadingState that re-enables the run control on every call
setDashboardLoadingState_alwaysEnables(s, isLoading) ==
    IF isLoading
    THEN [s EXCEPT !.btnDisabled = FALSE, !.placeholderText = PH_BUSY,
                   !.placeholderHidden = FALSE, !.tableHidden = TRUE,
                   !.summaryHidden = TRUE]
    ELSE [s EXCEPT !.btnDisabled = FALSE]

setDashboardLoadingState(s, isLoading) ==
    IF isLoading
    THEN [s EXCEPT !.btnDisabled = TRUE, !.placeholderText = PH_BUSY,
                   !.placeholderHidden = FALSE, !.tableHidden = TRUE,
                   !.summaryHidden = TRUE]
    ELSE [s EXCEPT !.btnDisabled = FALSE]

setErrorState(s, message) ==
    [s EXCEPT !.summaryHidden = TRUE, !.tableHidden = TRUE,
              !.controlsHidden = TRUE, !.placeholderHidden = FALSE,
              !.placeholderText = PlaceholderError(message),
              !.placeholderRed = TRUE]

setDashboardErrorState(s, message) ==
    [s EXCEPT !.placeholderText = PlaceholderError(message),
              !.placeholderRed = TRUE]

\* ------------------------------------------------------------------------
\* Main process: the 'objdiff:run-report' handler
\* ------------------------------------------------------------------------
Absent == ""        \* an unset path (undefined, null or the empty string)

ProjectPaths == {Absent, "C:/proj"}
CustomPaths == {Absent, "C:/tools/objdiff-cli.exe"}
WherePaths == {Absent, "C:/bin/objdiff-cli.exe"}

\* the store's settings and the file system, as one run of the handler
\* finds them
Envs ==
    [projectPath : ProjectPaths, customObjdiff : CustomPaths,
     existsInProject : BOOLEAN, where : WherePaths]

\* what the child process does: its exit code and what it wrote
ToolRuns == [code : {0, 1}, stdout : Stdouts]

\* resolveToolchainPaths(event, store).objdiff
resolveToolchainPaths(env) ==
    LET objdiffInProjectFolder ==
            IF env.projectPath # Absent /\ env.existsInProject
            THEN "C:/proj/objdiff-cli.exe" ELSE Absent
    IN  IF env.customObjdiff # Absent THEN env.customObjdiff
        ELSE IF objdiffInProjectFolder # Absent THEN objdiffInProjectFolder
        ELSE env.where

ErrorResult(message) == [error |-> message, report |-> JsNull]

\* the handler parsing stdout without looking at the exit code
objdiffRunReport_ignoresExitCode(env, tool) ==
    IF env.projectPath = Absent
    THEN [result |-> ErrorResult(E_PROJECT_PATH), invoked |-> FALSE, executions |-> 0]
    ELSE IF resolveToolchainPaths(env) = Absent
    THEN [result |-> ErrorResult(E_NOT_FOUND), invoked |-> FALSE, executions |-> 0]
    ELSE IF ~tool.stdout.parsable
    THEN [result |-> ErrorResult(E_PARSE), invoked |-> TRUE, executions |-> 1]
    ELSE [result |-> [error |-> NoError, report |-> tool.stdout.value],
          invoked |-> TRUE, executions |-> 1]

\* the handler running the command without checking the resolved path
objdiffRunReport_skipsToolCheck(env, tool) ==
    IF env.projectPath = Absent
    THEN [result |-> ErrorResult(E_PROJECT_PATH), invoked |-> FALSE, executions |-> 0]
    ELSE IF tool.code # 0
    THEN [result |-> ErrorResult(E_COMMAND_FAILED), invoked |-> TRUE,
          executions |-> 1]
    ELSE IF ~tool.stdout.parsable
    THEN [result |-> ErrorResult(E_PARSE), invoked |-> TRUE, executions |-> 1]
    ELSE [result |-> [error |-> NoError, report |-> tool.stdout.value],
          invoked |-> TRUE, executions |-> 1]

\* the handler answering every failure of the run with the catch message
objdiffRunReport_oneMessage(env, tool) ==
    IF env.projectPath = Absent
    THEN [result |-> ErrorResult(E_PROJECT_PATH), invoked |-> FALSE, executions |-> 0]
    ELSE IF resolveToolchainPaths(env) = Absent
    THEN [result |-> ErrorResult(E_NOT_FOUND), invoked |-> FALSE, executions |-> 0]
    ELSE IF tool.code # 0 \/ ~tool.stdout.parsable
    THEN [result |-> ErrorResult(E_PARSE), invoked |-> TRUE, executions |-> 1]
    ELSE [result |-> [error |-> NoError, report |-> tool.stdout.value],
          invoked |-> TRUE, executions |-> 1]

\* the handler running the command a second time when it exits non-zero
objdiffRunReport_retriesOnce(env, tool) ==
    IF env.projectPath = Absent
    THEN [result |-> ErrorResult(E_PROJECT_PATH), invoked |-> FALSE, executions |-> 0]
    ELSE IF resolveToolchainPaths(env) = Absent
    THEN [result |-> ErrorResult(E_NOT_FOUND), invoked |-> FALSE, executions |-> 0]
    ELSE IF tool.code # 0
    THEN [result |-> ErrorResult(E_COMMAND_FAILED), invoked |-> TRUE,
          executions |-> 2]
    ELSE IF ~tool.stdout.parsable
    THEN [result |-> ErrorResult(E_PARSE), invoked |-> TRUE, executions |-> 1]
    ELSE [result |-> [error |-> NoError, report |-> tool.stdout.value],
          invoked |-> TRUE, executions |-> 1]

\* the handler's return value, whether it started the child process, and
\* how many times it called executeAndLog
objdiffRunReport(env, tool) ==
    IF env.projectPath = Absent
    THEN [result |-> ErrorResult(E_PROJECT_PATH), invoked |-> FALSE, executions |-> 0]
    ELSE IF resolveToolchainPaths(env) = Absent
    THEN [result |-> ErrorResult(E_NOT_FOUND), invoked |-> FALSE, executions |-> 0]
    ELSE IF tool.code # 0
    THEN [result |-> ErrorResult(E_COMMAND_FAILED), invoked |-> TRUE,
          executions |-> 1]
    ELSE IF ~tool.stdout.parsable
    THEN [result |-> ErrorResult(E_PARSE), invoked |-> TRUE, executions |-> 1]
    ELSE [result |-> [error |-> NoError, report |-> tool.stdout.value],
          invoked |-> TRUE, executions |-> 1]

\* ------------------------------------------------------------------------
\* Renderer handlers, standalone page
\* ------------------------------------------------------------------------
\* handleRunReport up to its await
handleRunReport_start(s) == setLoadingState(s, TRUE)

\* handleRunReport that does not clear the expansion set
handleRunReport_resume_keepsExpansion(s, result) ==
    LET loaded == [s EXCEPT !.report = result.report,
                            !.filterQuery = <<>>, !.filterInputValue = <<>>]
        sorted == sortUnits(loaded)
        body == IF result.error # NoError THEN Throw(s, result.error)
                ELSE IF result.report.tag = "null" THEN Throw(s, E_NO_REPORT)
                ELSE IF sorted.thrown # NoError THEN sorted
                ELSE render(sorted)
        handled == IF body.thrown # NoError
                   THEN setErrorState(Caught(body), body.thrown)
                   ELSE body
    IN  setLoadingState(handled, FALSE)

\* handleRunReport that renders the new report without sorting it
handleRunReport_resume_skipsSort(s, result) ==
    LET loaded == [s EXCEPT !.report = result.report, !.expandedRows = {},
                            !.filterQuery = <<>>, !.filterInputValue = <<>>]
        body == IF result.error # NoError THEN Throw(s, result.error)
                ELSE IF result.report.tag = "null" THEN Throw(s, E_NO_REPORT)
                ELSE render(loaded)
        handled == IF body.thrown # NoError
                   THEN setErrorState(Caught(body), body.thrown)
                   ELSE body
    IN  setLoadingState(handled, FALSE)

\* handleRunReport from the await on: try body, catch, finally
handleRunReport_resume(s, result) ==
    LET loaded == [s EXCEPT !.report = result.report, !.expandedRows = {},
                            !.filterQuery = <<>>, !.filterInputValue = <<>>]
        sorted == sortUnits(loaded)
        body == IF result.error # NoError THEN Throw(s, result.error)
                ELSE IF result.report.tag = "null" THEN Throw(s, E_NO_REPORT)
                ELSE IF sorted.thrown # NoError THEN sorted
                ELSE render(sorted)
        handled == IF body.thrown # NoError
                   THEN setErrorState(Caught(body), body.thrown)
                   ELSE body
    IN  setLoadingState(handled, FALSE)

\* handleRowToggle that keeps at most one unit open
handleRowToggle_accordion(s, unitName) ==
    Caught(renderTable(
        [s EXCEPT !.expandedRows =
            IF unitName \in @ THEN @ \ {unitName} ELSE {unitName}]))

handleRowToggle(s, unitName) ==
    Caught(renderTable(
        [s EXCEPT !.expandedRows =
            IF unitName \in @ THEN @ \ {unitName} ELSE @ \cup {unitName}]))

\* handleSort that keeps the direction when the key changes
handleSort_keepsDirection(s, newSortKey) ==
    LET keyed == IF s.sortKey = newSortKey
                 THEN [s EXCEPT !.sortDirection =
                          IF @ = "asc" THEN "desc" ELSE "asc"]
                 ELSE [s EXCEPT !.sortKey = newSortKey]
        sorted == sortUnits(keyed)
    IN  Caught(IF sorted.thrown # NoError THEN sorted ELSE render(sorted))

handleSort(s, newSortKey) ==
    LET keyed == IF s.sortKey = newSortKey
                 THEN [s EXCEPT !.sortDirection =
                          IF @ = "asc" THEN "desc" ELSE "asc"]
                 ELSE [s EXCEPT !.sortKey = newSortKey,
                                !.sortDirection = "asc"]
        sorted == sortUnits(keyed)
    IN  Caught(IF sorted.thrown # NoError THEN sorted ELSE render(sorted))

\* the listener storing the typed text without lower-casing it
filterInputListener_caseSensitive(s, value) ==
    Caught(renderTable([s EXCEPT !.filterInputValue = value,
                                 !.filterQuery = value]))

\* a filter listener that also closes every open unit
filterInputListener_collapses(s, value) ==
    Caught(renderTable([s EXCEPT !.filterInputValue = value,
                                 !.filterQuery = toLowerCase(value),
                                 !.expandedRows = {}]))

\* the filter box's 'input' listener
filterInputListener(s, value) ==
    Caught(renderTable([s EXCEPT !.filterInputValue = value,
                                 !.filterQuery = toLowerCase(value)]))

\* ------------------------------------------------------------------------
\* Renderer handlers, dashboard view
\* ------------------------------------------------------------------------
handleDashboardRunReport_start(s) == setDashboardLoadingState(s, TRUE)

\* handleDashboardRunReport that re-enables the control only after a success
handleDashboardRunReport_resume_noFinally(s, result) ==
    LET loaded == [s EXCEPT !.report = result.report, !.expandedRows = {},
                            !.filterQuery = <<>>, !.filterInputValue = <<>>]
        sorted == sortDashboardUnits(loaded)
        body == IF result.error # NoError THEN Throw(s, result.error)
                ELSE IF sorted.thrown # NoError THEN sorted
                ELSE renderDashboard(sorted)
    IN  IF body.thrown # NoError
        THEN setDashboardErrorState(Caught(body), body.thrown)
        ELSE setDashboardLoadingState(body, FALSE)

handleDashboardRunReport_resume(s, result) ==
    LET loaded == [s EXCEPT !.report = result.report, !.expandedRows = {},
                            !.filterQuery = <<>>, !.filterInputValue = <<>>]
        sorted == sortDashboardUnits(loaded)
        body == IF result.error # NoError THEN Throw(s, result.error)
                ELSE IF sorted.thrown # NoError THEN sorted
                ELSE renderDashboard(sorted)
        handled == IF body.thrown # NoError
                   THEN setDashboardErrorState(Caught(body), body.thrown)
                   ELSE body
    IN  setDashboardLoadingState(handled, FALSE)

\* a row listener that opens a unit and never closes it
dashboardRowListener_onlyAdds(s, unitName) ==
    Caught(renderDashboardTable(
        [s EXCEPT !.expandedRows = @ \cup {unitName}]))

dashboardRowListener(s, unitName) ==
    Caught(renderDashboardTable(
        [s EXCEPT !.expandedRows =
            IF unitName \in @ THEN @ \ {unitName} ELSE @ \cup {unitName}]))

\* handleDashboardSort that sorts before it stores the clicked key
handleDashboardSort_sortsBeforeKeying(s, newSortKey) ==
    LET sorted == sortDashboardUnits(s)
        keyed  == IF s.sortKey = newSortKey
                  THEN [sorted EXCEPT !.sortDirection =
                           IF @ = "asc" THEN "desc" ELSE "asc"]
                  ELSE [sorted EXCEPT !.sortKey = newSortKey,
                                      !.sortDirection = "asc"]
    IN  Caught(IF sorted.thrown # NoError THEN sorted
               ELSE renderDashboard(keyed))

handleDashboardSort(s, newSortKey) ==
    LET keyed == IF s.sortKey = newSortKey
                 THEN [s EXCEPT !.sortDirection =
                          IF @ = "asc" THEN "desc" ELSE "asc"]
                 ELSE [s EXCEPT !.sortKey = newSortKey,
                                !.sortDirection = "asc"]
        sorted == sortDashboardUnits(keyed)
    IN  Caught(IF sorted.thrown # NoError THEN sorted
               ELSE renderDashboard(sorted))

\* a filter listener that re-renders the whole dashboard
dashboardFilterListener_rendersAll(s, value) ==
    Caught(renderDashboard([s EXCEPT !.filterInputValue = value,
                                     !.filterQuery = toLowerCase(value)]))

\* a filter listener that swaps the table for the placeholder when no unit
\* passes the filter
dashboardFilterListener_hidesEmptyTable(s, value) ==
    LET shown == Caught(renderDashboardTable(
                     [s EXCEPT !.filterInputValue = value,
                               !.filterQuery = toLowerCase(value)]))
    IN  IF shown.tableBody = <<>>
        THEN [shown EXCEPT !.tableHidden = TRUE, !.placeholderHidden = FALSE]
        ELSE shown

dashboardFilterListener(s, value) ==
    Caught(renderDashboardTable([s EXCEPT !.filterInputValue = value,
                                          !.filterQuery = toLowerCase(value)]))

\* ------------------------------------------------------------------------
\* The view state a user sees
\* ------------------------------------------------------------------------
ViewState(s) ==
    IF s.btnDisabled THEN "Loading"
    ELSE IF ~s.placeholderHidden /\ s.placeholderText[1] = "Error: " THEN "Error"
    ELSE IF s.placeholderHidden /\ ~s.tableHidden THEN "Loaded"
    ELSE "NoReport"

\* ------------------------------------------------------------------------
\* Initial state
\* ------------------------------------------------------------------------
\* the module-level state object
state ==
    [report |-> JsNull, expandedRows |-> {}, filterQuery |-> <<>>,
     sortKey |-> "match_percent", sortDirection |-> "asc"]

\* the document as loaded, before any script has run
Markup ==
    [btnDisabled |-> FALSE, placeholderHidden |-> FALSE,
     placeholderText |-> PH_START, placeholderRed |-> FALSE,
     tableHidden |-> TRUE, summaryHidden |-> TRUE, controlsHidden |-> TRUE,
     filterInputValue |-> <<>>, tableBody |-> <<>>,
     summary |-> [nan |-> FALSE, progress |-> <<0, 0>>, matched |-> <<0, 0>>],
     thrown |-> NoError]

Merge(f, g) == [k \in DOMAIN f \cup DOMAIN g |-> IF k \in DOMAIN f THEN f[k] ELSE g[k]]

NoRun ==
    [from |-> "NoReport", done |-> FALSE, projectPathSet |-> FALSE,
     toolResolved |-> FALSE, invoked |-> FALSE, executions |-> 0,
     code |-> 0, shape |-> "none", error |-> NoError]

NoOp == [op |-> "init", key |-> "", text |-> <<>>]

Init ==
    /\ surface \in Surfaces
    /\ ui = IF surface = "page" THEN render(Merge(state, Markup))
                                ELSE Merge(state, Markup)
    /\ inFlight = 0
    /\ run = NoRun
    /\ last = NoOp

\* ------------------------------------------------------------------------
\* Actions
\* ------------------------------------------------------------------------
\* the shape of what the tool wrote
ShapeOf(stdout) ==
    IF ~stdout.parsable THEN "unparsable"
    ELSE IF stdout.value.tag = "null" THEN "null"
    ELSE IF stdout.value.unitsTag = "absent" THEN "no-units"
    ELSE IF stdout.value \in WellFormedReports THEN "report"
    ELSE "wrong-type"

\* the tool's location can be resolved: a path is configured, or the
\* executable lies in the project folder, or it is on the PATH
Resolvable(env) ==
    \/ env.customObjdiff # Absent
    \/ env.projectPath # Absent /\ env.existsInProject
    \/ env.where # Absent

\* every way one run of the handler can go
HandlerOutcomes ==
    { LET h == objdiffRunReport(env, tool)
      IN  [result |-> h.result,
           projectPathSet |-> env.projectPath # Absent,
           toolResolved |-> Resolvable(env),
           invoked |-> h.invoked,
           executions |-> h.executions,
           code |-> IF h.invoked THEN tool.code ELSE 0,
           shape |-> IF h.invoked THEN ShapeOf(tool.stdout) ELSE "none"]
      : env \in Envs, tool \in ToolRuns }

\* a click on the run control
RunReportClick ==
    /\ ~ui.btnDisabled
    /\ inFlight < MaxInFlight
    /\ ui' = IF surface = "page" THEN handleRunReport_start(ui)
                                 ELSE handleDashboardRunReport_start(ui)
    /\ inFlight' = inFlight + 1
    /\ run' = [NoRun EXCEPT !.from = ViewState(ui)]
    /\ last' = [NoOp EXCEPT !.op = "run"]
    /\ UNCHANGED surface

\* the handler answers and the renderer's continuation runs
RunReportCompletes ==
    /\ inFlight > 0
    /\ \E o \in HandlerOutcomes :
          /\ ui' = IF surface = "page"
                   THEN handleRunReport_resume(ui, o.result)
                   ELSE handleDashboardRunReport_resume(ui, o.result)
          /\ run' = [from |-> run.from, done |-> TRUE,
                     projectPathSet |-> o.projectPathSet,
                     toolResolved |-> o.toolResolved, invoked |-> o.invoked,
                     executions |-> o.executions,
                     code |-> o.code, shape |-> o.shape,
                     error |-> o.result.error]
    /\ inFlight' = inFlight - 1
    /\ last' = [NoOp EXCEPT !.op = "complete"]
    /\ UNCHANGED surface

\* a keystroke in the filter box
FilterInput ==
    /\ ~ui.controlsHidden
    /\ \E value \in Queries :
          /\ value # ui.filterInputValue
          /\ ui' = IF surface = "page" THEN filterInputListener(ui, value)
                                       ELSE dashboardFilterListener(ui, value)
          /\ last' = [op |-> "filter", key |-> "", text |-> value]
    /\ UNCHANGED <<surface, inFlight, run>>

\* a click on a sortable header cell
HeaderClick ==
    /\ ~ui.tableHidden
    /\ \E key \in SortKeys :
          /\ ui' = IF surface = "page" THEN handleSort(ui, key)
                                       ELSE handleDashboardSort(ui, key)
          /\ last' = [op |-> "sort", key |-> key, text |-> <<>>]
    /\ UNCHANGED <<surface, inFlight, run>>

\* a click on an expandable row of the table body
RowClick ==
    /\ ~ui.tableHidden
    /\ \E i \in DOMAIN ui.tableBody :
          /\ ui.tableBody[i].expandable
          /\ ui' = IF surface = "page"
                   THEN handleRowToggle(ui, ui.tableBody[i].name)
                   ELSE dashboardRowListener(ui, ui.tableBody[i].name)
          /\ last' = [op |-> "toggle", key |-> "", text |-> ui.tableBody[i].name]
    /\ UNCHANGED <<surface, inFlight, run>>

Next ==
    \/ RunReportClick
    \/ RunReportCompletes
    \/ FilterInput
    \/ HeaderClick
    \/ RowClick

Spec == Init /\ [][Next]_vars

\* the program under the hypothesis that the external tool finishes: a
\* pending acquisition completes eventually
LiveSpec == Spec /\ WF_vars(RunReportCompletes)

\* ------------------------------------------------------------------------
\* The view engine on its own: a first report has just been loaded and the
\* user filters, sorts and expands
\* ------------------------------------------------------------------------
FirstRun ==
    [from |-> "NoReport", done |-> TRUE, projectPathSet |-> TRUE,
     toolResolved |-> TRUE, invoked |-> TRUE, executions |-> 1,
     code |-> 0, shape |-> "report", error |-> NoError]

ViewInit ==
    /\ surface \in Surfaces
    /\ \E r \in ViewReports :
          LET result == [error |-> NoError, report |-> r]
          IN  ui = IF surface = "page"
                   THEN handleRunReport_resume(
                            handleRunReport_start(render(Merge(state, Markup))),
                            result)
                   ELSE handleDashboardRunReport_resume(
                            handleDashboardRunReport_start(Merge(state, Markup)),
                            result)
    /\ inFlight = 0
    /\ run = FirstRun
    /\ last = [NoOp EXCEPT !.op = "complete"]

ViewNext ==
    \/ FilterInput
    \/ HeaderClick
    \/ RowClick

SpecView == ViewInit /\ [][ViewNext]_vars

\* ------------------------------------------------------------------------
\* The two surfaces side by side: the standalone page and the dashboard are
\* fed the same clicks, keystrokes and acquisition results. Here ui holds
\* one view per surface.
\* ------------------------------------------------------------------------
BothInit ==
    /\ surface = "both"
    /\ ui = [page |-> render(Merge(state, Markup)),
             dash |-> Merge(state, Markup)]
    /\ inFlight = 0
    /\ run = NoRun
    /\ last = NoOp

BothRunReportClick ==
    /\ ~ui.page.btnDisabled /\ ~ui.dash.btnDisabled
    /\ inFlight < MaxInFlight
    /\ ui' = [page |-> handleRunReport_start(ui.page),
              dash |-> handleDashboardRunReport_start(ui.dash)]
    /\ inFlight' = inFlight + 1
    /\ run' = [NoRun EXCEPT !.from = ViewState(ui.page)]
    /\ last' = [NoOp EXCEPT !.op = "run"]
    /\ UNCHANGED surface

BothRunReportCompletes ==
    /\ inFlight > 0
    /\ \E o \in HandlerOutcomes :
          /\ ui' = [page |-> handleRunReport_resume(ui.page, o.result),
                    dash |-> handleDashboardRunReport_resume(ui.dash, o.result)]
          /\ run' = [from |-> run.from, done |-> TRUE,
                     projectPathSet |-> o.projectPathSet,
                     toolResolved |-> o.toolResolved, invoked |-> o.invoked,
                     executions |-> o.executions,
                     code |-> o.code, shape |-> o.shape,
                     error |-> o.result.error]
    /\ inFlight' = inFlight - 1
    /\ last' = [NoOp EXCEPT !.op = "complete"]
    /\ UNCHANGED surface

BothFilterInput ==
    /\ ~ui.page.controlsHidden /\ ~ui.dash.controlsHidden
    /\ \E value \in Queries :
          /\ value # ui.page.filterInputValue
          /\ value # ui.dash.filterInputValue
          /\ ui' = [page |-> filterInputListener(ui.page, value),
                    dash |-> dashboardFilterListener(ui.dash, value)]
          /\ last' = [op |-> "filter", key |-> "", text |-> value]
    /\ UNCHANGED <<surface, inFlight, run>>

BothHeaderClick ==
    /\ ~ui.page.tableHidden /\ ~ui.dash.tableHidden
    /\ \E key \in SortKeys :
          /\ ui' = [page |-> handleSort(ui.page, key),
                    dash |-> handleDashboardSort(ui.dash, key)]
          /\ last' = [op |-> "sort", key |-> key, text |-> <<>>]
    /\ UNCHANGED <<surface, inFlight, run>>

BothRowClick ==
    /\ ~ui.page.tableHidden /\ ~ui.dash.tableHidden
    /\ \E i \in DOMAIN ui.page.tableBody, j \in DOMAIN ui.dash.tableBody :
          /\ ui.page.tableBody[i].expandable
          /\ ui.dash.tableBody[j].expandable
          /\ ui.dash.tableBody[j].name = ui.page.tableBody[i].name
          /\ ui' = [page |-> handleRowToggle(ui.page,
                                             ui.page.tableBody[i].name),
                    dash |-> dashboardRowListener(ui.dash,
                                                  ui.page.tableBody[i].name)]
          /\ last' = [op |-> "toggle", key |-> "",
                      text |-> ui.page.tableBody[i].name]
    /\ UNCHANGED <<surface, inFlight, run>>

BothNext ==
    \/ BothRunReportClick
    \/ BothRunReportCompletes
    \/ BothFilterInput
    \/ BothHeaderClick
    \/ BothRowClick

SpecBoth == BothInit /\ [][BothNext]_vars

\* ------------------------------------------------------------------------
\* executeAndLog on its own: the child process writes its output in chunks
\* and closes. Here ui holds the child's remaining output (pending), what it
\* has written so far, the stdout accumulator of executeAndLog and the value
\* the promise resolved with.
\* ------------------------------------------------------------------------
StdoutChars == {32, 97, 98}     \* " ", "a", "b"

WhiteSpace == {32}

\* String.prototype.trim
RECURSIVE trim(_)
trim(str) ==
    IF str = <<>> THEN <<>>
    ELSE IF Head(str) \in WhiteSpace THEN trim(Tail(str))
    ELSE IF str[Len(str)] \in WhiteSpace
         THEN trim(SubSeq(str, 1, Len(str) - 1))
    ELSE str

\* child.stdout.on('data', ...)
stdoutDataListener(acc, data) ==
    LET msg == trim(data)
    IN  acc \o msg

ExecInit ==
    /\ surface = "main"
    /\ \E out \in SeqsUpTo(StdoutChars, MaxStdoutLen) :
          ui = [pending |-> out, written |-> <<>>, stdout |-> <<>>,
                resolved |-> FALSE, code |-> 0, result |-> <<>>]
    /\ inFlight = 1
    /\ run = NoRun
    /\ last = [NoOp EXCEPT !.op = "exec"]

\* the child writes the next chunk of its output
StdoutData ==
    /\ ~ui.resolved
    /\ \E n \in 1..Len(ui.pending) :
          LET data == SubSeq(ui.pending, 1, n)
          IN  /\ ui' = [ui EXCEPT
                          !.pending = SubSeq(@, n + 1, Len(@)),
                          !.written = @ \o data,
                          !.stdout = stdoutDataListener(@, data)]
              /\ last' = [op |-> "data", key |-> "", text |-> data]
    /\ UNCHANGED <<surface, inFlight, run>>

\* the child exits and its streams close
ChildClose ==
    /\ ~ui.resolved
    /\ ui.pending = <<>>
    /\ \E code \in {0, 1} :
          ui' = [ui EXCEPT !.resolved = TRUE, !.code = code,
                           !.result = ui.stdout]
    /\ inFlight' = 0
    /\ last' = [NoOp EXCEPT !.op = "close"]
    /\ UNCHANGED <<surface, run>>

ExecNext ==
    \/ StdoutData
    \/ ChildClose

SpecExec == ExecInit /\ [][ExecNext]_vars

\* ------------------------------------------------------------------------
\* handleProjectSetup on its own. Here ui holds the handler's position (pc),
\* the resolved tool paths (TRUE for a path that was found), what the file
\* system and the store hold, the steps run so far with their outcome, the
\* number of commands given to executeAndLog, the number of times the tools
\* were looked up (resolveToolchainPaths, findExecutable), whether
\* toolchainPaths was stored, the result, and what was found at the start.
\* ------------------------------------------------------------------------
SetupSteps == <<"verify", "clone", "copy", "configure", "ninja">>

E_GIT == "Git not found. Please install it or set its path in Settings."
E_PYTHON == "Python not found. Please install it or set its path in Settings."
E_PIP == "Failed to install Ninja via pip. Please check your Python installation."
E_NINJA_MISSING ==
    "Could not find Ninja executable after installation. You may need to restart the application or your terminal."
E_NO_PROJECT == "Project path not set. Cannot download objdiff-cli."
E_CLONE == "Failed to clone 'melee' repository."
E_CONFIGURE == "Failed to run configure.py"
E_NINJA == "Initial ninja build failed"

ExitCodes == {0, 1}

StepDone(s, name, ok) == [s EXCEPT !.steps = Append(@, [name |-> name, ok |-> ok])]

SetupFails(s, message) == [s EXCEPT !.pc = "done", !.result = "failure", !.error = message]

\* verification returned { success: true, paths }: handleProjectSetup goes on
\* to the clone, or past it when the melee directory exists
verified(s) ==
    [StepDone(s, "verify", TRUE) EXCEPT
        !.pc = IF s.meleeExists THEN "copy" ELSE "clone"]

\* verification returned { success: false, error }
notVerified(s, message) == SetupFails(StepDone(s, "verify", FALSE), message)

\* verifyAndHealToolchain, part 3: objdiff-cli
checkObjdiff(s) ==
    IF ~s.paths.objdiff
    THEN IF ~s.projectPathStored THEN notVerified(s, E_NO_PROJECT)
         ELSE [s EXCEPT !.pc = "download"]
    ELSE verified(s)

\* verifyAndHealToolchain up to its first await after resolveToolchainPaths
verifyAndHealToolchain(s) ==
    LET t == [s EXCEPT !.lookups = @ + 1]
    IN  IF ~t.paths.git THEN notVerified(t, E_GIT)
        ELSE IF ~t.paths.python THEN notVerified(t, E_PYTHON)
        ELSE IF ~t.paths.ninja THEN [t EXCEPT !.pc = "pip"]
        ELSE checkObjdiff(t)

\* pip install ninja has exited with code; found is the second look-up
pipInstallDone(s, code, found) ==
    LET t == [s EXCEPT !.commands = @ + 1]
    IN  IF code # 0 THEN notVerified(t, E_PIP)
        ELSE LET u == [t EXCEPT !.lookups = @ + 1]
             IN  IF ~found THEN notVerified(u, E_NINJA_MISSING)
                 ELSE checkObjdiff([u EXCEPT !.paths.ninja = TRUE])

\* downloadFile has settled; a failed download is logged and verification
\* completes without objdiff
downloadDone(s, ok) ==
    verified(IF ok THEN [s EXCEPT !.paths.objdiff = TRUE] ELSE s)

cloneDone(s, code) ==
    LET t == StepDone([s EXCEPT !.commands = @ + 1], "clone", code = 0)
    IN  IF code # 0 THEN SetupFails(t, E_CLONE)
        ELSE [t EXCEPT !.pc = "copy", !.meleeExists = TRUE]

\* fs.copyFileSync raises when dolPath cannot be read; the handler rejects
copyDol(s, readable) ==
    LET t == StepDone(s, "copy", readable)
    IN  IF ~readable THEN [t EXCEPT !.pc = "done", !.result = "thrown"]
        ELSE [t EXCEPT !.pc = "configure"]

configureDone(s, code) ==
    LET t == StepDone([s EXCEPT !.commands = @ + 1], "configure", code = 0)
    IN  IF code # 0 THEN SetupFails(t, E_CONFIGURE)
        ELSE [t EXCEPT !.pc = "ninja"]

\* the handler storing the paths whatever the build's exit code
ninjaDone_storesFirst(s, code) ==
    LET t == StepDone([s EXCEPT !.commands = @ + 1, !.stored = TRUE],
                      "ninja", code = 0)
    IN  IF code # 0 THEN SetupFails(t, E_NINJA)
        ELSE [t EXCEPT !.pc = "done", !.result = "success"]

ninjaDone(s, code) ==
    LET t == StepDone([s EXCEPT !.commands = @ + 1], "ninja", code = 0)
    IN  IF code # 0 THEN SetupFails(t, E_NINJA)
        ELSE [t EXCEPT !.pc = "done", !.stored = TRUE, !.result = "success"]

SetupInit ==
    /\ surface = "setup"
    /\ \E git, python, ninja, objdiff, stored, melee \in BOOLEAN :
          ui = [pc |-> "verify",
                paths |-> [git |-> git, python |-> python, ninja |-> ninja,
                           objdiff |-> objdiff],
                atStart |-> [git |-> git, python |-> python, melee |-> melee],
                projectPathStored |-> stored, meleeExists |-> melee,
                steps |-> <<>>, commands |-> 0, lookups |-> 0,
                stored |-> FALSE, result |-> "none", error |-> NoError]
    /\ inFlight = 1
    /\ run = NoRun
    /\ last = [NoOp EXCEPT !.op = "setup"]

SetupStep(name, next) ==
    /\ ui' = next
    /\ inFlight' = IF next.pc = "done" THEN 0 ELSE 1
    /\ last' = [NoOp EXCEPT !.op = name]
    /\ UNCHANGED <<surface, run>>

VerifyToolchain ==
    /\ ui.pc = "verify"
    /\ SetupStep("verify", verifyAndHealToolchain(ui))

PipInstall ==
    /\ ui.pc = "pip"
    /\ \E code \in ExitCodes, found \in BOOLEAN :
          SetupStep("pip", pipInstallDone(ui, code, found))

DownloadObjdiff ==
    /\ ui.pc = "download"
    /\ \E ok \in BOOLEAN : SetupStep("download", downloadDone(ui, ok))

CloneMelee ==
    /\ ui.pc = "clone"
    /\ \E code \in ExitCodes : SetupStep("clone", cloneDone(ui, code))

CopyMainDol ==
    /\ ui.pc = "copy"
    /\ \E readable \in BOOLEAN : SetupStep("copy", copyDol(ui, readable))

RunConfigure ==
    /\ ui.pc = "configure"
    /\ \E code \in ExitCodes : SetupStep("configure", configureDone(ui, code))

RunNinja ==
    /\ ui.pc = "ninja"
    /\ \E code \in ExitCodes : SetupStep("ninja", ninjaDone(ui, code))

SetupNext ==
    \/ VerifyToolchain
    \/ PipInstall
    \/ DownloadObjdiff
    \/ CloneMelee
    \/ CopyMainDol
    \/ RunConfigure
    \/ RunNinja

SpecSetup == SetupInit /\ [][SetupNext]_vars

\* ------------------------------------------------------------------------
\* The application shell: the stored user paths, the path selection and
\* setup handlers of the renderer and its navigation. Here ui holds the
\* userPaths object of the store, the renderer's state (projectPath,
\* dolPath, isSetupComplete), the view shown, whether the gated navigation
\* items carry the class disabled, whether the setup button is disabled,
\* whether loadUserPaths has resumed, and two records kept for the
\* properties: the userPaths object at start-up and the last value given
\* to paths:set for each key.
\* ------------------------------------------------------------------------
PathKeys == {"projectPath", "dolPath"}

UserPathValues == {"C:/a", "C:/b"}

\* the objects { }, { projectPath }, { dolPath }, { projectPath, dolPath }
PathObjects ==
    UNION {[keys -> UserPathValues] : keys \in SUBSET PathKeys}

Get(object, key) == IF key \in DOMAIN object THEN object[key] ELSE Absent

\* { ...a, ...b }
Spread(a, b) ==
    [key \in DOMAIN a \cup DOMAIN b |->
        IF key \in DOMAIN b THEN b[key] ELSE a[key]]

\* the handler storing the object it was given
pathsSet_replaces(userPaths, paths) == paths

\* ipcMain.handle('paths:set'): the new value of userPaths in the store
pathsSet(userPaths, paths) == Spread(userPaths, paths)

GatedViews == {"view-decomp", "view-build", "view-dashboard"}

NavItems == {"setup", "decomp", "build", "dashboard", "settings"}

showView(s, viewId) == [s EXCEPT !.view = viewId]

updateNavState(s) == [s EXCEPT !.navDisabled = ~s.state.isSetupComplete]

\* a navigation listener showing its view whatever isSetupComplete is
navListener_unguarded(s, nav) == showView(s, "view-" \o nav)

\* the click listeners of the navigation items
navListener(s, nav) ==
    IF nav \in {"setup", "settings"} THEN showView(s, "view-" \o nav)
    ELSE IF s.state.isSetupComplete THEN showView(s, "view-" \o nav)
    ELSE s

\* the dialog returned selectedPath (Absent when cancelled)
selectProjectFolder(s, selectedPath) ==
    IF selectedPath # Absent
    THEN LET paths == [key \in {"projectPath"} |-> selectedPath]
         IN  [s EXCEPT !.state.projectPath = selectedPath,
                       !.userPaths = pathsSet(@, paths),
                       !.lastSet.projectPath = selectedPath]
    ELSE s

selectMainDolFile(s, filePath) ==
    IF filePath # Absent
    THEN LET paths == [key \in {"dolPath"} |-> filePath]
         IN  [s EXCEPT !.state.dolPath = filePath,
                       !.userPaths = pathsSet(@, paths),
                       !.lastSet.dolPath = filePath]
    ELSE s

\* loadUserPaths after getPaths resolved; populated is FALSE when
\* populateAsmFiles rejects, which ends the function before dolPath
loadUserPaths_resume(s, populated) ==
    LET paths == s.userPaths
        t == IF Get(paths, "projectPath") # Absent
             THEN updateNavState([s EXCEPT
                      !.state.projectPath = Get(paths, "projectPath"),
                      !.state.isSetupComplete = TRUE])
             ELSE s
        u == IF Get(paths, "dolPath") # Absent
                  /\ (Get(paths, "projectPath") = Absent \/ populated)
             THEN [t EXCEPT !.state.dolPath = Get(paths, "dolPath")]
             ELSE t
    IN  [u EXCEPT !.loaded = TRUE]

runInitialSetup_start(s) ==
    IF s.state.projectPath = Absent \/ s.state.dolPath = Absent THEN s
    ELSE [s EXCEPT !.setupBusy = TRUE]

SetupOutcomes == {"success", "successThenThrow", "failure", "rejected"}

\* runInitialSetup after runProjectSetup settled; with successThenThrow
\* the header load or populateAsmFiles rejects after the flag was set
runInitialSetup_resume(s, outcome) ==
    LET t == IF outcome = "success"
             THEN showView(updateNavState(
                      [s EXCEPT !.state.isSetupComplete = TRUE]), "view-decomp")
             ELSE IF outcome = "successThenThrow"
             THEN [s EXCEPT !.state.isSetupComplete = TRUE]
             ELSE s
    IN  [t EXCEPT !.setupBusy = FALSE]

saveSettings(s) == showView(s, "view-setup")

ShellInit ==
    /\ surface = "shell"
    /\ \E stored \in PathObjects :
          ui = [userPaths |-> stored,
                state |-> [projectPath |-> Absent, dolPath |-> Absent,
                           isSetupComplete |-> FALSE],
                view |-> "view-setup", navDisabled |-> TRUE,
                setupBusy |-> FALSE, loaded |-> FALSE,
                atStart |-> stored,
                lastSet |-> [projectPath |-> Absent, dolPath |-> Absent]]
    /\ inFlight = 0
    /\ run = NoRun
    /\ last = NoOp

ShellStep(op, key, next) ==
    /\ ui' = next
    /\ last' = [op |-> op, key |-> key, text |-> <<>>]
    /\ UNCHANGED <<surface, inFlight, run>>

LoadUserPathsResumes ==
    /\ ~ui.loaded
    /\ \E populated \in BOOLEAN :
          ShellStep("loadUserPaths", "", loadUserPaths_resume(ui, populated))

NavClick ==
    \E nav \in NavItems : ShellStep("nav", nav, navListener(ui, nav))

SelectProjectFolderClick ==
    /\ ui.view = "view-setup"
    /\ \E selectedPath \in UserPathValues \cup {Absent} :
          ShellStep("selectProjectFolder", selectedPath,
                    selectProjectFolder(ui, selectedPath))

SelectMainDolFileClick ==
    /\ ui.view = "view-setup"
    /\ \E filePath \in UserPathValues \cup {Absent} :
          ShellStep("selectMainDolFile", filePath,
                    selectMainDolFile(ui, filePath))

RunSetupClick ==
    /\ ui.view = "view-setup"
    /\ ~ui.setupBusy
    /\ ShellStep("runInitialSetup", "", runInitialSetup_start(ui))

RunSetupSettles ==
    /\ ui.setupBusy
    /\ \E outcome \in SetupOutcomes :
          ShellStep("setupSettled", outcome, runInitialSetup_resume(ui, outcome))

SaveSettingsClick ==
    /\ ui.view = "view-settings"
    /\ ShellStep("saveSettings", "", saveSettings(ui))

ShellNext ==
    \/ LoadUserPathsResumes
    \/ NavClick
    \/ SelectProjectFolderClick
    \/ SelectMainDolFileClick
    \/ RunSetupClick
    \/ RunSetupSettles
    \/ SaveSettingsClick

SpecShell == ShellInit /\ [][ShellNext]_vars

TypeOK ==
    /\ surface \in Surfaces
    /\ inFlight \in 0..MaxInFlight
    /\ ui.thrown = NoError
    /\ ui.sortKey \in SortKeys
    /\ ui.sortDirection \in {"asc", "desc"}

\* ------------------------------------------------------------------------
\* Vocabulary of the properties
\* ------------------------------------------------------------------------
\* a value of the Report shape of the inbound parse contract
IsShaped(r) ==
    /\ r.tag = "object"
    /\ r.fieldsTag = "number"
    /\ r.unitsTag = "array"
    /\ \A i \in DOMAIN r.units :
          /\ r.units[i].nameTag = "string"
          /\ r.units[i].symbolsTag = "array"

IsReport(r) ==
    /\ IsShaped(r)
    /\ \A i \in DOMAIN r.units : r.units[i].match_percent \in 0..One

\* the last acquisition has completed and no other is pending
Completed == run.done /\ inFlight = 0

\* str contains q as a contiguous substring
Contains(str, q) ==
    \E i \in 1..(Len(str) + 1) : \E j \in (i - 1)..Len(str) :
        SubSeq(str, i, j) = q

\* the names on the unit rows of the table body, in order
RECURSIVE RowNames(_)
RowNames(rows) ==
    IF rows = <<>> THEN <<>>
    ELSE IF Head(rows).kind = "unit"
         THEN <<Head(rows).name>> \o RowNames(Tail(rows))
         ELSE RowNames(Tail(rows))

\* the names of the units whose lower-cased name contains the lower-cased text
RECURSIVE NamesContaining(_, _)
NamesContaining(units, text) ==
    IF units = <<>> THEN <<>>
    ELSE IF Contains(toLowerCase(Head(units).name), toLowerCase(text))
         THEN <<Head(units).name>> \o NamesContaining(Tail(units), text)
         ELSE NamesContaining(Tail(units), text)

IsUnitRow(row) == row.kind = "unit"

\* the unit rows of the table body, in order, without the detail rows
UnitRows(rows) == SelectSeq(rows, IsUnitRow)

\* no two units carry the same value under the key
NoTies(units, key) ==
    \A i, j \in DOMAIN units :
        i # j => Prop(units[i], key) # Prop(units[j], key)

\* the view after a click on the header cell of the key
SortClick(s, key) ==
    IF surface = "page" THEN handleSort(s, key) ELSE handleDashboardSort(s, key)

OtherKey(key) == IF key = "name" THEN "match_percent" ELSE "name"

\* another sequence of header clicks that ends with the key and direction
\* of s: the other header, then the header of s.sortKey once (ascending)
\* or twice (descending)
SameParamsOtherWay(s) ==
    LET asc == SortClick(SortClick(s, OtherKey(s.sortKey)), s.sortKey)
    IN  IF s.sortDirection = "asc" THEN asc ELSE SortClick(asc, s.sortKey)

\* the units whose lower-cased name contains the lower-cased text, in order
RECURSIVE Shown(_, _)
Shown(units, text) ==
    IF units = <<>> THEN <<>>
    ELSE IF Contains(toLowerCase(Head(units).name), toLowerCase(text))
         THEN <<Head(units)>> \o Shown(Tail(units), text)
         ELSE Shown(Tail(units), text)

\* the table body cut into one section per unit row: the row and the detail
\* rows that follow it
RECURSIVE Sections(_)
Sections(rows) ==
    IF rows = <<>> THEN <<>>
    ELSE LET lastRow == rows[Len(rows)]
             secs    == Sections(SubSeq(rows, 1, Len(rows) - 1))
         IN  IF lastRow.kind = "unit" \/ secs = <<>>
             THEN Append(secs, [row |-> lastRow, details |-> <<>>])
             ELSE [secs EXCEPT ![Len(secs)].details = Append(@, lastRow)]

\* the view after a click on the row of the named unit
ToggleClick(s, unitName) ==
    IF surface = "page" THEN handleRowToggle(s, unitName)
                        ELSE dashboardRowListener(s, unitName)

\* how often x occurs in seq
Count(seq, x) == Cardinality({i \in DOMAIN seq : seq[i] = x})

\* r is the report q with its units possibly reordered
SameReport(r, q) ==
    /\ [r EXCEPT !.units = <<>>] = [q EXCEPT !.units = <<>>]
    /\ Len(r.units) = Len(q.units)
    /\ \A i \in DOMAIN q.units :
          Count(r.units, q.units[i]) = Count(q.units, q.units[i])

UserEvents == {"filter", "sort", "toggle"}

\* sub can be had from seq by leaving elements out
RECURSIVE IsSubsequence(_, _)
IsSubsequence(sub, seq) ==
    IF sub = <<>> THEN TRUE
    ELSE IF seq = <<>> THEN FALSE
    ELSE IF Head(sub) = Head(seq) THEN IsSubsequence(Tail(sub), Tail(seq))
    ELSE IsSubsequence(sub, Tail(seq))

\* the statements of the listener of a user event, up to the point where
\* an exception would leave the listener
EventBody(s, op, key, text) ==
    LET table(t) == IF surface = "page" THEN renderTable(t)
                                        ELSE renderDashboardTable(t)
        keyed == IF s.sortKey = key
                 THEN [s EXCEPT !.sortDirection =
                          IF @ = "asc" THEN "desc" ELSE "asc"]
                 ELSE [s EXCEPT !.sortKey = key, !.sortDirection = "asc"]
        sorted == IF surface = "page" THEN sortUnits(keyed)
                                      ELSE sortDashboardUnits(keyed)
    IN  CASE op = "filter" ->
               table([s EXCEPT !.filterInputValue = text,
                               !.filterQuery = toLowerCase(text)])
          [] op = "toggle" ->
               table([s EXCEPT !.expandedRows =
                        IF text \in @ THEN @ \ {text} ELSE @ \cup {text}])
          [] op = "sort" ->
               IF sorted.thrown # NoError THEN sorted
               ELSE IF surface = "page" THEN render(sorted)
                                        ELSE renderDashboard(sorted)
          [] OTHER -> s

\* what a surface holds and shows: report, filter, sort and expansion
\* state, the visibility of the four sections and, when the table is
\* visible, its rows and detail rows
Observed(s) ==
    [report |-> s.report, filterQuery |-> s.filterQuery,
     sortKey |-> s.sortKey, sortDirection |-> s.sortDirection,
     expandedRows |-> s.expandedRows,
     placeholderHidden |-> s.placeholderHidden,
     summaryHidden |-> s.summaryHidden,
     tableHidden |-> s.tableHidden,
     controlsHidden |-> s.controlsHidden,
     rows |-> IF s.tableHidden THEN <<>> ELSE s.tableBody]

\* ------------------------------------------------------------------------
\* Properties
\* ------------------------------------------------------------------------
\* C1: the view state moves only along NoReport -> Loading -> {Loaded,
\* Error} and from Loaded or Error to Loading; Loading is entered only by
\* triggering a run, and a completed acquisition leaves Loaded or Error.
C1_TransitionDiagram ==
    [][LET a == ViewState(ui)
           b == ViewState(ui')
       IN  /\ \/ a = b
              \/ a = "NoReport" /\ b = "Loading"
              \/ a = "Loading" /\ b \in {"Loaded", "Error"}
              \/ a \in {"Loaded", "Error"} /\ b = "Loading"
           /\ (a # "Loading" /\ b = "Loading") => last'.op = "run"
           /\ last'.op = "complete" => b \in {"Loaded", "Error"}]_vars

\* C2: at most one acquisition is in flight on a surface, and the run
\* control is disabled for as long as one is.
C2_AtMostOneInFlight ==
    /\ inFlight <= 1
    /\ inFlight = 1 => ui.btnDisabled

C2_Witness == inFlight = 1 /\ run.from = "Loaded" /\ last.op = "filter"

\* C3: right after a successful runReport the expansion set is empty and
\* the filter query (and the filter box) is the empty string.
C3_SuccessClearsDerivedState ==
    (last.op = "complete" /\ ViewState(ui) = "Loaded") =>
        /\ ui.expandedRows = {}
        /\ ui.filterQuery = <<>>
        /\ ui.filterInputValue = <<>>

C3_Witness ==
    /\ last.op = "complete" /\ ViewState(ui) = "Loaded"
    /\ run.from = "Loaded" /\ ui.sortDirection = "desc"
    /\ IsReport(ui.report) /\ Len(ui.report.units) = MaxUnits

\* C4: when a run started from Loaded fails, no report is held in the
\* resulting Error state and table and summary are not displayed.
C4_FailedRerunDiscardsReport ==
    (last.op = "complete" /\ run.from = "Loaded" /\ ViewState(ui) = "Error") =>
        /\ ui.report = JsNull
        /\ ui.tableHidden
        /\ ui.summaryHidden

\* C5: when the tool exits non-zero the result is the execution-failed
\* error whatever was written to stdout, the view is Error, and summary and
\* table are hidden until the next run.
C5_NonZeroExitFails ==
    (Completed /\ run.invoked /\ run.code # 0) =>
        /\ run.error = E_COMMAND_FAILED
        /\ ViewState(ui) = "Error"
        /\ ui.placeholderText = PlaceholderError(E_COMMAND_FAILED)
        /\ ui.summaryHidden
        /\ ui.tableHidden

C5_Witness ==
    /\ Completed /\ run.invoked /\ run.code # 0
    /\ run.shape = "report" /\ run.from = "Loaded"

\* C6: when the tool exits 0 but its output is not of the Report shape,
\* the run fails: the view is Error with table and summary hidden, and the
\* held report is never a value that deviates from the shape.
C6_MalformedOutputRejected ==
    /\ (ui.report.tag # "null") => IsReport(ui.report)
    /\ (Completed /\ run.invoked /\ run.code = 0 /\ run.shape # "report") =>
          /\ ViewState(ui) = "Error"
          /\ ui.tableHidden
          /\ ui.summaryHidden

\* C7: in every Error state the error message is shown as placeholder text
\* and table, summary and filter controls are hidden; a run for which the
\* handler returned an error leaves the view in Error.
C7_ErrorStateDisplay ==
    /\ (Completed /\ run.error # NoError) =>
          /\ ViewState(ui) = "Error"
          /\ ui.placeholderText = PlaceholderError(run.error)
    /\ ViewState(ui) = "Error" =>
          /\ ~ui.placeholderHidden
          /\ ui.tableHidden
          /\ ui.summaryHidden
          /\ ui.controlsHidden

\* C8 (as claimed): whenever the tool's location cannot be resolved the run
\* fails with the tool-not-found message and the tool is not invoked,
\* whatever the other settings are.
C8_UnresolvedToolAsClaimed ==
    (run.done /\ ~run.toolResolved) =>
        /\ run.error = E_NOT_FOUND
        /\ ~run.invoked

\* C8 (amended): whenever the tool's location cannot be resolved the tool
\* is not invoked and the run fails, with the tool-not-found message when
\* the project path is set and with the project-path message when it is
\* not; the view shows that message as an error.
C8_UnresolvedTool ==
    (run.done /\ ~run.toolResolved) =>
        /\ ~run.invoked
        /\ run.error = IF run.projectPathSet THEN E_NOT_FOUND
                                             ELSE E_PROJECT_PATH
        /\ inFlight = 0 => ui.placeholderText = PlaceholderError(run.error)

C8_Witness ==
    /\ run.done /\ ~run.toolResolved /\ run.projectPathSet
    /\ ViewState(ui) = "Error"

\* C9: in Loaded, for every report and every filter text typed, the unit
\* rows are exactly the units whose lower-cased name contains the
\* lower-cased filter text, in the order of the held units; with the empty
\* text every unit has a row.
C9_FilterCorrectness ==
    (ViewState(ui) = "Loaded" /\ IsReport(ui.report)) =>
        /\ RowNames(ui.tableBody)
              = NamesContaining(ui.report.units, ui.filterInputValue)
        /\ ui.filterInputValue = <<>> =>
              Len(RowNames(ui.tableBody)) = Len(ui.report.units)

C9_Witness ==
    /\ ViewState(ui) = "Loaded" /\ IsReport(ui.report)
    /\ ui.filterInputValue = <<65>>
    /\ Len(ui.report.units) = 2
    /\ Len(RowNames(ui.tableBody)) = 1

\* C10: a header click on the current sort key flips the direction and
\* keeps the key; a click on another key sets that key and sets the
\* direction to ascending.
C10_SetSort ==
    [][last'.op = "sort" =>
          IF last'.key = ui.sortKey
          THEN /\ ui'.sortKey = ui.sortKey
               /\ ui'.sortDirection = (IF ui.sortDirection = "asc"
                                       THEN "desc" ELSE "asc")
          ELSE /\ ui'.sortKey = last'.key
               /\ ui'.sortDirection = "asc"]_vars

C10_Witness ==
    /\ last.op = "sort" /\ ui.sortKey = "name" /\ ui.sortDirection = "desc"

\* C11: when the units' match_percent values are pairwise distinct and the
\* table is sorted by match_percent ascending, a click on that same header
\* shows the units in exactly the reverse order.
C11_ToggleReverses ==
    [][(/\ last'.op = "sort" /\ last'.key = "match_percent"
        /\ ViewState(ui) = "Loaded" /\ IsReport(ui.report)
        /\ ui.sortKey = "match_percent" /\ ui.sortDirection = "asc"
        /\ NoTies(ui.report.units, "match_percent"))
       => /\ ui'.sortDirection = "desc"
          /\ ui'.report.units = Reverse(ui.report.units)
          /\ UnitRows(ui'.tableBody) = Reverse(UnitRows(ui.tableBody))]_vars

C11_Witness ==
    /\ last.op = "sort" /\ last.key = "match_percent"
    /\ ui.sortKey = "match_percent" /\ ui.sortDirection = "desc"
    /\ ViewState(ui) = "Loaded" /\ IsReport(ui.report)
    /\ NoTies(ui.report.units, "match_percent")
    /\ Len(ui.report.units) = 3
    /\ Len(UnitRows(ui.tableBody)) = 3

\* C12: from a table sorted ascending by a key, two further clicks on the
\* same header (descending, then ascending again) restore exactly the
\* ascending order that was shown, units with equal values included.
C12_AscDescAscRestores ==
    (ViewState(ui) = "Loaded" /\ IsReport(ui.report)
        /\ ui.sortDirection = "asc")
    => LET desc  == SortClick(ui, ui.sortKey)
           again == SortClick(desc, ui.sortKey)
       IN  /\ desc.sortKey = ui.sortKey /\ desc.sortDirection = "desc"
           /\ again.sortKey = ui.sortKey /\ again.sortDirection = "asc"
           /\ again.report.units = ui.report.units
           /\ again.tableBody = ui.tableBody

C12_Witness ==
    /\ last.op = "sort" /\ last.key = "match_percent"
    /\ ViewState(ui) = "Loaded" /\ IsReport(ui.report)
    /\ ui.sortKey = "match_percent" /\ ui.sortDirection = "asc"
    /\ Len(ui.report.units) = 3
    /\ ~NoTies(ui.report.units, "match_percent")
    /\ SortClick(ui, "match_percent").report.units # Reverse(ui.report.units)

\* C13: right after a successful acquisition, the first or a later one, the
\* sort key is match_percent and the direction is ascending.
C13_DefaultSortAfterLoad ==
    (last.op = "complete" /\ run.error = NoError /\ run.shape = "report")
    => (ui.sortKey = "match_percent" /\ ui.sortDirection = "asc")

\* C14 as claimed: two sequences of header clicks on the same report that
\* end with the same filter, key and direction display the same rows in the
\* same order.
C14_OrderByParamsAlone ==
    (ViewState(ui) = "Loaded" /\ IsReport(ui.report))
    => LET other == SameParamsOtherWay(ui)
       IN  /\ other.sortKey = ui.sortKey
           /\ other.sortDirection = ui.sortDirection
           /\ other.filterQuery = ui.filterQuery
           /\ other.tableBody = ui.tableBody

\* C14: when no two units of the report carry the same value under the
\* sort key, the units are held strictly ordered by key and direction, and
\* another sequence of header clicks ending with the same key and direction
\* displays the same rows in the same order.
C14_OrderByParamsWithoutTies ==
    (ViewState(ui) = "Loaded" /\ IsReport(ui.report)
        /\ NoTies(ui.report.units, ui.sortKey))
    => LET other == SameParamsOtherWay(ui)
           units == ui.report.units
       IN  /\ other.sortKey = ui.sortKey
           /\ other.sortDirection = ui.sortDirection
           /\ other.filterQuery = ui.filterQuery
           /\ other.tableBody = ui.tableBody
           /\ \A i, j \in DOMAIN units :
                 i < j => compare(units[i], units[j],
                                  ui.sortKey, ui.sortDirection) < 0

C14_Witness ==
    /\ last.op = "sort" /\ last.key = "name"
    /\ ViewState(ui) = "Loaded" /\ IsReport(ui.report)
    /\ ui.sortKey = "name" /\ ui.sortDirection = "desc"
    /\ Len(ui.report.units) = 3
    /\ NoTies(ui.report.units, "name")
    /\ ~NoTies(ui.report.units, "match_percent")
    /\ ui.filterQuery # <<>>
    /\ Len(UnitRows(ui.tableBody)) >= 2

\* C15: the row of every unit of the loaded report carries "Matched" exactly
\* when the unit's match_percent equals 1.0 and "Mismatch" for every other
\* value, and exactly the Mismatch rows can be clicked for expansion.
C15_StatusLabel ==
    (ViewState(ui) = "Loaded" /\ IsShaped(ui.report))
    => LET rows  == UnitRows(ui.tableBody)
           shown == Shown(ui.report.units, ui.filterInputValue)
       IN  /\ Len(rows) = Len(shown)
           /\ \A k \in DOMAIN rows :
                 /\ rows[k].name = shown[k].name
                 /\ rows[k].status = (IF shown[k].match_percent = One
                                      THEN "Matched" ELSE "Mismatch")
                 /\ rows[k].expandable <=> (rows[k].status = "Mismatch")

\* C16: no detail row is ever rendered under a unit whose match_percent is
\* 1.0, also when the unit's name is in the expansion set.
C16_NoDetailsForMatched ==
    (ViewState(ui) = "Loaded" /\ IsShaped(ui.report))
    => LET secs  == Sections(ui.tableBody)
           shown == Shown(ui.report.units, ui.filterInputValue)
       IN  /\ Len(secs) = Len(shown)
           /\ \A k \in DOMAIN secs :
                 /\ secs[k].row.kind = "unit"
                 /\ secs[k].row.name = shown[k].name
                 /\ shown[k].match_percent = One => secs[k].details = <<>>

\* a matched unit is shown whose name was expanded through a mismatched unit
\* of the same name, and that unit's details are open
C16_Witness ==
    /\ ViewState(ui) = "Loaded" /\ IsReport(ui.report)
    /\ LET secs  == Sections(ui.tableBody)
           shown == Shown(ui.report.units, ui.filterInputValue)
       IN  /\ Len(secs) = Len(shown)
           /\ \E k, m \in DOMAIN shown :
                 /\ shown[k].match_percent = One
                 /\ shown[k].name \in ui.expandedRows
                 /\ shown[m].name = shown[k].name
                 /\ secs[m].details # <<>>

\* C17: under every expanded mismatched unit that passes the filter there is
\* exactly one details row, with one item per symbol whose match_percent is
\* below 1.0, in the symbols' order, each showing the symbol's name, its
\* percentage and base_size / target_size; on both surfaces.
C17_DetailItems ==
    (ViewState(ui) = "Loaded" /\ IsReport(ui.report))
    => LET secs  == Sections(ui.tableBody)
           shown == Shown(ui.report.units, ui.filterInputValue)
       IN  /\ Len(secs) = Len(shown)
           /\ \A k \in DOMAIN secs :
                 (shown[k].match_percent < One
                     /\ shown[k].name \in ui.expandedRows)
                 => LET ms == MismatchedSymbols(shown[k].symbols)
                    IN  /\ Len(secs[k].details) = 1
                        /\ secs[k].details[1].kind = "details"
                        /\ secs[k].details[1].items =
                              [i \in DOMAIN ms |->
                                 [name    |-> ms[i].name,
                                  percent |-> toFixed2(ms[i].match_percent),
                                  bytes   |-> <<ms[i].base_size,
                                                ms[i].target_size>>]]

\* C18: a row click on unit A leaves the expansion membership of every
\* other name, the filter query, the sort key, the direction, the held
\* report and the order and membership of the displayed unit rows unchanged.
C18_ToggleFrame ==
    [][last'.op = "toggle" =>
          /\ \A B \in (ui.expandedRows \cup ui'.expandedRows) \ {last'.text} :
                B \in ui.expandedRows <=> B \in ui'.expandedRows
          /\ ui'.filterQuery = ui.filterQuery
          /\ ui'.filterInputValue = ui.filterInputValue
          /\ ui'.sortKey = ui.sortKey
          /\ ui'.sortDirection = ui.sortDirection
          /\ ui'.report = ui.report
          /\ UnitRows(ui'.tableBody) = UnitRows(ui.tableBody)]_vars

C18_Witness ==
    /\ last.op = "toggle"
    /\ ViewState(ui) = "Loaded" /\ IsReport(ui.report)
    /\ last.text \in ui.expandedRows
    /\ ui.expandedRows # {last.text}
    /\ ui.filterQuery # <<>>
    /\ ui.sortKey = "name"
    /\ Len(UnitRows(ui.tableBody)) = 2

\* C19: a row click adds the unit's name to the expansion set when it is
\* absent and removes it when it is present, and a second click on the same
\* row right after it restores the set (and the table body) as it was.
C19_ToggleInvolution ==
    [][last'.op = "toggle" =>
          /\ ui'.expandedRows =
                (IF last'.text \in ui.expandedRows
                 THEN ui.expandedRows \ {last'.text}
                 ELSE ui.expandedRows \cup {last'.text})
          /\ ToggleClick(ui', last'.text).expandedRows = ui.expandedRows
          /\ ToggleClick(ui', last'.text).tableBody = ui.tableBody]_vars

C19_Witness ==
    /\ last.op = "toggle"
    /\ ViewState(ui) = "Loaded" /\ IsReport(ui.report)
    /\ last.text \notin ui.expandedRows
    /\ ui.expandedRows # {}
    /\ Len(Sections(ui.tableBody)) < Len(ui.tableBody)

\* C20: a filter keystroke, a header click or a row click never starts an
\* acquisition, never replaces the held report (a sort may reorder its
\* units) and never moves the view out of Loaded.
C20_UserEventsStayLoaded ==
    [][last'.op \in UserEvents =>
          /\ inFlight' = inFlight
          /\ run' = run
          /\ ui'.btnDisabled = ui.btnDisabled
          /\ SameReport(ui'.report, ui.report)
          /\ ViewState(ui) = "Loaded" => ViewState(ui') = "Loaded"]_vars

\* a header click in the Loaded state reordered the units of the held report
C20_Witness ==
    /\ last.op = "sort"
    /\ ViewState(ui) = "Loaded" /\ IsReport(ui.report)
    /\ inFlight = 0 /\ run.done
    /\ ui.filterQuery # <<>>
    /\ ui.expandedRows # {}
    /\ Len(ui.report.units) = 2
    /\ SortClick(ui, ui.sortKey).report # ui.report

\* C21: a filter keystroke changes only the filter query: the held report
\* keeps its units in content and order, the sort key, the direction and
\* the expansion set are unchanged; and after every step the displayed unit
\* rows of a Loaded view are the rows of a subsequence of the held units.
C21_FilterFrame ==
    [][/\ last'.op = "filter" =>
             /\ ui'.report = ui.report
             /\ ui'.sortKey = ui.sortKey
             /\ ui'.sortDirection = ui.sortDirection
             /\ ui'.expandedRows = ui.expandedRows
             /\ ui'.filterQuery = toLowerCase(last'.text)
       /\ (ViewState(ui') = "Loaded" /\ IsShaped(ui'.report)) =>
             IsSubsequence(UnitRows(ui'.tableBody),
                           [i \in DOMAIN ui'.report.units |->
                               UnitRow(ui'.report.units[i])])]_vars

C21_Witness ==
    /\ last.op = "filter" /\ last.text # <<>>
    /\ ViewState(ui) = "Loaded" /\ IsReport(ui.report)
    /\ ui.sortKey = "name" /\ ui.sortDirection = "desc"
    /\ ui.expandedRows # {}
    /\ Len(ui.report.units) = 2
    /\ Len(UnitRows(ui.tableBody)) = 1

\* C22: in NoReport, Loading and Error a filter, sort or row event leaves the
\* table and the summary hidden and the placeholder shown.
C22_EventsOnlyInLoaded ==
    [][(last'.op \in UserEvents /\ ViewState(ui) # "Loaded") =>
          /\ ViewState(ui') = ViewState(ui)
          /\ ui'.tableHidden /\ ui'.summaryHidden
          /\ ~ui'.placeholderHidden
          /\ ui'.placeholderText = ui.placeholderText]_vars

\* a filter keystroke arrived while an earlier report is held behind the
\* error message
C22_Witness ==
    /\ last.op = "filter" /\ last.text # <<>>
    /\ ViewState(ui) = "Error"
    /\ IsReport(ui.report) /\ Len(ui.report.units) = 2
    /\ ui.tableHidden /\ ~ui.placeholderHidden

\* C23: in Loaded, no filter, sort or row event raises an error, whatever
\* report the acquisition handed over as a successful result.
C23_EventsNeverRaise ==
    [][(last'.op \in UserEvents /\ ViewState(ui) = "Loaded") =>
          /\ ui' = Caught(EventBody(ui, last'.op, last'.key, last'.text))
          /\ EventBody(ui, last'.op, last'.key, last'.text).thrown
                = NoError]_vars

\* C24: one runReport call runs the external tool at most once; pending
\* acquisitions grow only by one, on a click on the enabled run control; and
\* the completion of a failed acquisition takes one pending call away and
\* leaves the run control enabled, without starting another acquisition.
C24_NoAutomaticRetry ==
    [][/\ last'.op = "complete" =>
             /\ run'.executions <= 1
             /\ run'.executions = 1 <=> run'.invoked
             /\ inFlight' = inFlight - 1
       /\ (last'.op = "complete" /\ run'.error # NoError) =>
             ~ui'.btnDisabled
       /\ inFlight' > inFlight =>
             /\ last'.op = "run"
             /\ ~ui.btnDisabled
             /\ inFlight' = inFlight + 1]_vars

\* a run failed after the tool ran once and exited non-zero, and nothing is
\* pending
C24_Witness ==
    /\ last.op = "complete"
    /\ run.done /\ run.error = E_COMMAND_FAILED
    /\ run.executions = 1 /\ run.code # 0
    /\ inFlight = 0
    /\ ViewState(ui) = "Error"

\* C25: the view is Loading as long as an acquisition is pending, and only
\* the completion of the pending acquisition moves it out of Loading; a
\* user event or any other step leaves a Loading view Loading.
C25_LoadingUntilCompletion ==
    [][/\ (ViewState(ui) = "Loading" /\ ViewState(ui') # "Loading") =>
             /\ last'.op = "complete"
             /\ inFlight' = inFlight - 1
       /\ inFlight' > 0 => ViewState(ui') = "Loading"
       /\ (ViewState(ui) = "Loading" /\ last'.op \in UserEvents) =>
             /\ ui'.placeholderText = PH_BUSY
             /\ ~ui'.placeholderHidden]_vars

\* a keystroke arrived while the acquisition was pending
C25_Witness ==
    /\ last.op = "filter" /\ last.text # <<>>
    /\ inFlight = 1 /\ ~run.done
    /\ ViewState(ui) = "Loading"
    /\ ui.placeholderText = PH_BUSY

\* C26: fed the same user events and acquisition results, the standalone
\* page and the dashboard hold the same report, filter, sort and expansion
\* state and show the same sections, rows and detail rows after every step.
C26_SurfacesAgree == Observed(ui.page) = Observed(ui.dash)

\* C27: when the pending acquisition completes, the view eventually is
\* Loaded or Error with the run control enabled again.
C27_CompletionReenables ==
    (inFlight > 0) ~>
        (/\ inFlight = 0
         /\ ViewState(ui) \in {"Loaded", "Error"}
         /\ ~ui.btnDisabled)

\* C28: the held report changes only with a run that ends in Loaded (or
\* becomes absent): the result of a run that ends in Error is not held
\* afterwards.
C28_ReplacementAtomic ==
    [][/\ ui'.report # ui.report =>
             /\ last'.op \in {"complete", "sort"}
             /\ last'.op = "sort" => SameReport(ui'.report, ui.report)
       /\ (last'.op = "complete" /\ ui'.report # ui.report) =>
             \/ ViewState(ui') = "Loaded"
             \/ ui'.report = JsNull]_vars

\* C29: in every Loaded state the held units are ordered by the current
\* sort key in the current direction: no unit compares after its successor.
C29_HeldUnitsSorted ==
    (ViewState(ui) = "Loaded" /\ ui.report.unitsTag = "array")
    => \A i \in 1..(Len(ui.report.units) - 1) :
          compare(ui.report.units[i], ui.report.units[i + 1],
                  ui.sortKey, ui.sortDirection) <= 0

\* a later report was loaded while the table was sorted by name, descending
C29_Witness ==
    /\ last.op = "complete" /\ run.from = "Loaded"
    /\ ViewState(ui) = "Loaded" /\ IsReport(ui.report)
    /\ ui.sortKey = "name" /\ ui.sortDirection = "desc"
    /\ Len(ui.report.units) = 2
    /\ ui.report.units[1].name # ui.report.units[2].name

\* C30: a header click only permutes: the held report keeps its summary
\* fields and the same multiset of units, each unit unchanged, and the
\* filter query and the expansion set are unchanged.
C30_SortOnlyPermutes ==
    [][last'.op = "sort" =>
          /\ SameReport(ui'.report, ui.report)
          /\ ui'.filterQuery = ui.filterQuery
          /\ ui'.filterInputValue = ui.filterInputValue
          /\ ui'.expandedRows = ui.expandedRows]_vars

C30_Witness ==
    /\ last.op = "sort" /\ last.key = "name"
    /\ ViewState(ui) = "Loaded" /\ IsReport(ui.report)
    /\ Len(ui.report.units) = 3
    /\ ~NoTies(ui.report.units, "name")
    /\ ui.filterQuery # <<>>
    /\ ui.expandedRows # {}
    /\ SortClick(ui, "match_percent").report.units # ui.report.units

\* C31: every name in the expansion set is the name of a mismatched unit of
\* the held report.
C31_ExpandedAreMismatched ==
    \A unitName \in ui.expandedRows :
        /\ ui.report.unitsTag = "array"
        /\ \E i \in DOMAIN ui.report.units :
              /\ ui.report.units[i].nameTag = "string"
              /\ ui.report.units[i].name = unitName
              /\ ui.report.units[i].match_percent < One

\* C32: the run control is disabled exactly while an acquisition is in
\* flight: from the click until the completion has been handled; it is
\* enabled in NoReport, Loaded and Error, after a success and after a
\* failure.
C32_DisabledIffInFlight ==
    /\ ui.btnDisabled <=> inFlight > 0
    /\ ViewState(ui) \in {"NoReport", "Loaded", "Error"} =>
          (~ui.btnDisabled /\ inFlight = 0)
    /\ last.op = "run" => ui.btnDisabled
    /\ last.op = "complete" => ~ui.btnDisabled

\* a run failed after an earlier one had succeeded, and the control is
\* enabled again
C32_Witness ==
    /\ last.op = "complete" /\ run.from = "Loaded"
    /\ run.error # NoError
    /\ ViewState(ui) = "Error"
    /\ ~ui.btnDisabled /\ inFlight = 0

\* C33: the stdout value that executeAndLog resolves with is the in-order
\* concatenation of everything the child wrote to stdout, however the
\* output was split into chunks.
C33_StdoutIsConcatenation ==
    ui.resolved => ui.result = ui.written

StepIndex(name) == CHOOSE i \in 1..Len(SetupSteps) : SetupSteps[i] = name

\* C35: the steps of handleProjectSetup run in the order verification,
\* clone, main.dol copy, configure.py, ninja; the clone is skipped exactly
\* when the melee directory existed; a step runs only after every earlier
\* step succeeded; toolchainPaths is stored and success returned only after
\* the ninja build exited 0; and a missing git or python fails the setup
\* before any command is executed.
C35_SetupOrder ==
    LET steps == ui.steps
        names == {steps[i].name : i \in 1..Len(steps)}
    IN  /\ \A i, j \in 1..Len(steps) :
              i < j => /\ StepIndex(steps[i].name) < StepIndex(steps[j].name)
                       /\ steps[i].ok
        /\ \A i \in 1..Len(steps) :
              steps[i].name # "verify" => steps[1].name = "verify"
        /\ "clone" \in names => ~ui.atStart.melee
        /\ "copy" \in names => ("clone" \in names <=> ~ui.atStart.melee)
        /\ ("clone" \in names /\ "copy" \in names) =>
              \E i \in 1..Len(steps) : steps[i].name = "clone" /\ steps[i + 1].name = "copy"
        /\ "configure" \in names => "copy" \in names
        /\ "ninja" \in names => "configure" \in names
        /\ (ui.stored \/ ui.result = "success") =>
              /\ steps # <<>>
              /\ steps[Len(steps)] = [name |-> "ninja", ok |-> TRUE]
              /\ ui.stored /\ ui.result = "success"
        /\ (~ui.atStart.git \/ ~ui.atStart.python) =>
              /\ ui.commands = 0
              /\ ui.pc = "done" => (ui.result = "failure" /\ ~ui.stored)

\* a setup that installed ninja, cloned the repository and built it
C35_Witness ==
    /\ ui.pc = "done" /\ ui.result = "success" /\ ui.stored
    /\ Len(ui.steps) = 5
    /\ ui.commands = 4

\* a setup that failed for a missing git before running any command
C35_WitnessMissingGit ==
    /\ ui.pc = "done" /\ ~ui.atStart.git /\ ui.result = "failure"
    /\ ui.commands = 0

\* C36: for each of projectPath and dolPath the stored value is the last
\* value given to paths:set for that key, and a key that was never set
\* still holds what the store held at start-up: setting one path never
\* erases or changes the other.
C36_PathsKept ==
    \A key \in PathKeys :
        IF ui.lastSet[key] # Absent
        THEN key \in DOMAIN ui.userPaths /\ ui.userPaths[key] = ui.lastSet[key]
        ELSE Get(ui.userPaths, key) = Get(ui.atStart, key)

\* the project folder was just set to a new value while a main.dol path
\* set earlier is in the store
C36_Witness ==
    /\ last.op = "selectProjectFolder" /\ last.key # Absent
    /\ Get(ui.atStart, "projectPath") # last.key
    /\ ui.lastSet.dolPath # Absent
    /\ Get(ui.userPaths, "dolPath") = ui.lastSet.dolPath
    /\ Get(ui.userPaths, "projectPath") = last.key

\* C37: a step shows the Decompilation, Build & Verify or Verification
\* Dashboard view only when isSetupComplete is true, a navigation click
\* in particular, and isSetupComplete never goes from true to false.
C37_GatedNavigation ==
    [][/\ (ui.state.isSetupComplete => ui'.state.isSetupComplete)
       /\ (ui'.view \in GatedViews => ui'.state.isSetupComplete)
       /\ (last'.op = "nav" /\ ui'.view # ui.view /\ ui'.view \in GatedViews)
              => ui.state.isSetupComplete]_vars

\* navigation has just shown the Verification Dashboard
C37_Witness ==
    /\ last.op = "nav" /\ last.key = "dashboard"
    /\ ui.view = "view-dashboard"
    /\ ui.state.isSetupComplete

=============================================================================
